---- MODULE Spec2Model ----
(***************************************************************************)
(* Detection-and-mitigation engine of the WIDS server.                     *)
(*                                                                         *)
(* Part I models src/server.py: the packet log, the device registry, the   *)
(* authorization set, check_intrusion, the auto-blocking thread, and the   *)
(* iptables / sqlite block state driven by block_with_iptables and         *)
(* unblock_mac.  The auto-blocking thread and a Flask request thread run   *)
(* concurrently (app.run(threaded=True)); every subprocess call is one     *)
(* step, so the steps of two calls interleave.                             *)
(*                                                                         *)
(* Part II models src/Server.py: ingestion-time threat analysis and        *)
(* auto-blocking, the WIDS_BLOCK chain with its expiry timers, and the     *)
(* routes that authorize, block and unblock.  The two programs are         *)
(* alternative servers; the state they have in common (devices, packets,   *)
(* authorized_macs, threat_log) is shared by the two parts.                *)
(*                                                                         *)
(* Part III models the upsert of the device registry in receive_packet at  *)
(* the granularity of a thread switch, with the wall clock it reads.       *)
(***************************************************************************)
EXTENDS Integers, Sequences, FiniteSets, Bags, TLC

(* ---------------------------------------------------------------------- *)
(* Identifiers and inputs                                                  *)
(* ---------------------------------------------------------------------- *)

\* Canonical (uppercase, well-formed) hardware addresses.
Macs == {"AA", "BB"}

\* str.upper() on the identifiers the model draws.
upper(s) ==
    CASE s = "aa" -> "AA"
      [] s = "bb" -> "BB"
      [] OTHER    -> s

\* Identifiers as they arrive in URLs of the block/unblock/authorize routes.
UrlMacs == {"AA", "BB", "aa"}

YOUR_SSID == "Airtel_sath_0300"

\* Telemetry records the sensors post to /api/packet.
PacketInputs ==
    { [mac |-> "AA", ssid |-> "other",   attack_type |-> "deauth_attack"],
      [mac |-> "AA", ssid |-> YOUR_SSID, attack_type |-> "probe_request"],
      [mac |-> "BB", ssid |-> YOUR_SSID, attack_type |-> "auth_attempt"],
      [mac |-> "BB", ssid |-> "other",   attack_type |-> "auth_attempt"] }

\* JSON null: the value of "mac" in a body such as {"mac": null, ...}.
None == "None"

\* The records of PacketInputs and one whose "mac" is null.
SweepInputs ==
    PacketInputs \cup
    { [mac |-> None, ssid |-> "other", attack_type |-> "deauth_attack"] }

\* packet.get('mac', '').upper() raises AttributeError: .get returns the
\* stored null, which has no method upper.
raises(packet) == packet.mac = None

\* Bounds of the model.
MaxPackets == 1
MaxCycles == 2
MaxFaults == 1
\* Records posted in the specification of the sweep.
MaxWindow == 2
\* Records posted and clock steps in the specification of the registry.
MaxUpserts == 2
MaxClock == 2

\* Program constants of server.py.
PacketCap == 1000
SweepWindow == 100
ThreatLogCap == 100
DeviceTTL == 3600

\* Program constants of Server.py.
DefaultDuration == 3600
DefaultThreshold == 10
RateWindow == 10
RateKeep == 30

\* Bounds of the clock of the Server.py model.
MaxTicks == 1
\* Bound of the timers pending at a time.
MaxTimers == 1
TickSteps == {DefaultDuration}

Threads == {"sweep", "req"}

VARIABLES
    authorized_macs,    \* server.py:45  set of authorized MACs
    saved_macs,         \* content of authorized_macs.json
    packets,            \* server.py:44  recent packets
    devices,            \* server.py:43  MAC -> device info
    threat_log,         \* server.py:47
    INPUT,              \* iptables INPUT chain: DROP rules per MAC
    FORWARD,            \* iptables FORWARD chain: DROP rules per MAC
    blocked_devices,    \* sqlite table blocked_devices
    alerts,             \* calls of send_intrusion_alert, per MAC
    pc,                 \* position of each thread
    call,               \* locals of the block/unblock call a thread is in
    resp,               \* last response of the routes whose response is kept
    window,             \* the slice packets[-100:] the running cycle iterates
    idx,                \* position of the cycle in window
    processed_macs,     \* server.py:401
    cycles,             \* sweep cycles started
    faults,             \* failed external commands (firewall, mail, file) so far
    trip,               \* history: the authorize / revoke round trip of a MAC
    blocked_macs,       \* Server.py:28  manually blocked devices
    packet_rates,       \* Server.py:31  MAC -> timestamps
    WIDS_BLOCK,         \* iptables chain WIDS_BLOCK: DROP rules per MAC
    timers,             \* pending threading.Timer unblocks
    now,                \* time.time()
    ticks,              \* clock advances so far
    AUTO_BLOCK_THRESHOLD,   \* Server.py:23
    BLOCK_DURATION,     \* Server.py:22
    listing_upper,      \* iptables -L prints MAC addresses in upper case
    rx,                 \* /api/packet requests in flight: position and locals
    monitor             \* monitor_esp32.py: the fields of ESP32Monitor, its
                        \* console and the requests it has posted

vars == << authorized_macs, saved_macs, packets, devices, threat_log, INPUT,
           FORWARD, blocked_devices, alerts, pc, call, resp, window, idx,
           processed_macs, cycles, faults, trip,
           blocked_macs, packet_rates, WIDS_BLOCK, timers, now, ticks,
           AUTO_BLOCK_THRESHOLD, BLOCK_DURATION, listing_upper, rx,
           monitor >>

registry == << packets, devices >>
authz    == << authorized_macs, saved_macs >>
firewall == << INPUT, FORWARD >>
sweepLoc == << window, idx, processed_macs, cycles >>
\* State of Server.py only, the requests in flight where the handlers are
\* atomic, and the serial monitor, which is a process of its own.
ingest   == << blocked_macs, packet_rates, WIDS_BLOCK, timers, now, ticks,
               AUTO_BLOCK_THRESHOLD, BLOCK_DURATION, listing_upper, rx,
               monitor >>

\* Request threads of /api/packet.
RxThreads == {"r1", "r2"}
NoRx == [pc |-> "idle", mac |-> "", at |-> 0]

\* ESP32Monitor.__init__ (monitor_esp32.py:18-25), nothing printed or posted.
NewMonitor == [ready |-> FALSE, packet_count |-> 0, devices_detected |-> {},
               console |-> << >>, posted |-> << >>]

NoDevice == [seen |-> FALSE]
NoCall   == [mac |-> "", result1 |-> TRUE, result2 |-> TRUE]

(* ---------------------------------------------------------------------- *)
(* Pure helpers                                                            *)
(* ---------------------------------------------------------------------- *)

\* list[-n:]
LastN(s, n) ==
    IF Len(s) <= n THEN s ELSE SubSeq(s, Len(s) - n + 1, Len(s))

\* A capped append that drops the new element when the list is full.
append_keep_oldest(s, x, cap) ==
    LET a == Append(s, x) IN IF Len(a) > cap THEN SubSeq(a, 1, cap) ELSE a

\* list.append(x); if len(list) > cap: list.pop(0)
AppendCapped(s, x, cap) ==
    LET a == Append(s, x) IN IF Len(a) > cap THEN Tail(a) ELSE a

\* re.match(r'^([0-9A-F]{2}:){5}[0-9A-F]{2}$', mac_upper)
valid_mac(mac_upper) == mac_upper \in Macs

\* The records of a MAC among the packets stored.
records_of(ps, m) == Cardinality({i \in 1..Len(ps) : upper(ps[i].mac) = m})

\* check_intrusion(packet): the finding, or none.
NoIntrusion == [found |-> FALSE]

intrusion_reasons(ssid, attack_type) ==
       (IF attack_type = "auth_attempt" /\ ssid = YOUR_SSID
        THEN << "Authentication attempt" >> ELSE << >>)
    \o (IF attack_type = "association" /\ ssid = YOUR_SSID
        THEN << "Association request" >> ELSE << >>)
    \o (IF attack_type = "deauth_attack"
        THEN << "Deauthentication attack detected" >> ELSE << >>)
    \o (IF attack_type = "probe_request" /\ ssid = YOUR_SSID
        THEN << "Probing" >> ELSE << >>)

\* server.py:343, 472  the all-zero address.
ZeroMac == "00:00:00:00:00:00"

\* A test that takes every MAC for an identifier.
any_mac(mac) == FALSE

\* not mac or mac == '00:00:00:00:00:00'
no_mac(mac) == mac = "" \/ mac = ZeroMac

check_intrusion(packet, authorized) ==
    LET mac == upper(packet.mac)
        reasons == intrusion_reasons(packet.ssid, packet.attack_type)
    IN  IF no_mac(mac) THEN NoIntrusion
        ELSE IF mac \in authorized THEN NoIntrusion
        ELSE IF reasons # << >>
             THEN [found |-> TRUE, mac |-> mac,
                   attack_type |-> packet.attack_type,
                   ssid |-> packet.ssid, reason |-> reasons]
             ELSE NoIntrusion

\* Attack types the auto-blocking thread blocks for.
AutoBlockTypes == {"auth_attempt", "association", "deauth_attack"}

(* ---------------------------------------------------------------------- *)
(* sqlite table blocked_devices (mac TEXT UNIQUE): a bag of rows; the      *)
(* reason and the timestamps of a row are payload and are left out.        *)
(* ---------------------------------------------------------------------- *)

Statuses == {"blocked", "unblocked"}
Rows == [mac : Macs, status : Statuses]

\* The rows of a table that satisfy a condition on (mac, status).
RowsWhere(rows, P(_)) ==
    [r \in { x \in DOMAIN rows : P(x) } |-> rows[r]]

\* A plain INSERT into a table without the UNIQUE constraint on mac.
insert_blocked_device(rows, mac, reason) ==
    rows (+) SetToBag({[mac |-> upper(mac), status |-> "blocked"]})

\* INSERT OR REPLACE INTO blocked_devices (mac, reason, blocked_at, status):
\* the row of the same mac, if any, is deleted and the new row inserted.
log_blocked_device(rows, mac, reason) ==
    RowsWhere(rows, LAMBDA r : r.mac # upper(mac))
        (+) SetToBag({[mac |-> upper(mac), status |-> "blocked"]})

\* UPDATE blocked_devices SET status='unblocked' WHERE mac=?
unblock_mac_in_db(rows, mac) ==
    LET hit == RowsWhere(rows, LAMBDA r : r.mac = upper(mac))
        n == BagCardinality(hit)
    IN  RowsWhere(rows, LAMBDA r : r.mac # upper(mac))
            (+) [r \in {[mac |-> upper(mac), status |-> "unblocked"]}
                       \cap {x \in Rows : n > 0} |-> n]

\* SELECT ... FROM blocked_devices WHERE status='blocked'
get_blocked_devices(rows) ==
    { r.mac : r \in { x \in DOMAIN rows : x.status = "blocked" } }

is_mac_blocked(mac) == upper(mac) \in get_blocked_devices(blocked_devices)

(* ---------------------------------------------------------------------- *)
(* Initial state: after load_authorized_macs() and init_database()         *)
(* ---------------------------------------------------------------------- *)

\* Module-level state of Server.py after import (lines 22-31) and after
\* IPTablesManager() has set up an empty WIDS_BLOCK chain.
IngestStart ==
    /\ blocked_macs = {}
    /\ packet_rates = [m \in UrlMacs |-> << >>]
    /\ WIDS_BLOCK = [m \in Macs |-> 0]
    /\ timers = EmptyBag
    /\ now = 0
    /\ ticks = 0
    /\ AUTO_BLOCK_THRESHOLD = DefaultThreshold
    /\ BLOCK_DURATION = DefaultDuration

\* State of server.py only, after init_database() and before the first
\* cycle of the auto-blocking thread.
SweepStart ==
    /\ saved_macs = {}
    /\ INPUT = [m \in Macs |-> 0]
    /\ FORWARD = [m \in Macs |-> 0]
    /\ blocked_devices = EmptyBag
    /\ alerts = [m \in Macs |-> 0]
    /\ pc = [t \in Threads |-> IF t = "sweep" THEN "sleep" ELSE "idle"]
    /\ call = [t \in Threads |-> NoCall]
    /\ window = << >>
    /\ idx = 1
    /\ processed_macs = {}
    /\ cycles = 0
    /\ trip = [m \in Macs |-> "none"]
    /\ rx = [r \in RxThreads |-> NoRx]
    /\ monitor = NewMonitor

NoResponse == [status |-> "none", mac |-> ""]

\* server.py after load_authorized_macs() found no file.
Init ==
    /\ authorized_macs = {}
    /\ packets = << >>
    /\ devices = [m \in Macs |-> NoDevice]
    /\ threat_log = << >>
    /\ resp = NoResponse
    /\ faults = 0
    /\ SweepStart
    /\ IngestStart
    /\ listing_upper = TRUE

\* An external command succeeds (ok) or fails; a run has at most MaxFaults
\* failures.
Outcome(ok) ==
    /\ ok \/ faults < MaxFaults
    /\ faults' = IF ok THEN faults ELSE faults + 1

(* ---------------------------------------------------------------------- *)
(* Block state of an identifier                                            *)
(* ---------------------------------------------------------------------- *)

\* The Blocked rows of a MAC in the table.
BlockedRows(rows, m) == CopiesIn([mac |-> m, status |-> "blocked"], rows)

\* Blocked: the firewall drops the MAC and the table says so.
Blocked(m) ==
    INPUT[m] > 0 /\ FORWARD[m] > 0 /\ BlockedRows(blocked_devices, m) > 0

\* Unblocked: no firewall rule and no Blocked row.
Unblocked(m) ==
    INPUT[m] = 0 /\ FORWARD[m] = 0 /\ BlockedRows(blocked_devices, m) = 0

\* No thread is calling block_with_iptables or unblock_mac for the MAC.
Quiet(m) == \A t \in Threads : call[t].mac # m

(* ---------------------------------------------------------------------- *)
(* Request handlers that run without a blocking call                       *)
(* ---------------------------------------------------------------------- *)

\* POST /api/packet
receive_packet(data) ==
    LET mac == upper(data.mac) IN
    /\ packets' = AppendCapped(packets, data, PacketCap)
    /\ devices' =
         IF raises(data) THEN devices     \* 500, after the record is stored
         ELSE IF ~no_mac(mac)
         THEN [devices EXCEPT ![mac] =
                 IF ~devices[mac].seen
                 THEN [seen |-> TRUE, packet_count |-> 1,
                       attack_types |->
                           IF data.attack_type # "" THEN {data.attack_type} ELSE {},
                       authorized |-> mac \in authorized_macs]
                 ELSE [@ EXCEPT !.packet_count = @ + 1,
                                !.attack_types =
                                    IF data.attack_type # ""
                                    THEN @ \cup {data.attack_type} ELSE @]]
         ELSE devices
    /\ trip' = [m \in Macs |-> IF m = mac THEN "none" ELSE trip[m]]
    /\ UNCHANGED ingest
    /\ UNCHANGED << authz, threat_log, firewall, blocked_devices, alerts, pc,
                    call, resp, sweepLoc, faults >>

\* save_authorized_macs(): the write succeeds (ok) or raises and is swallowed.
save_authorized_macs(macs, ok) == IF ok THEN macs ELSE saved_macs

\* POST /api/authorize/<mac>
authorize_mac(mac, ok) ==
    LET mac_upper == upper(mac) IN
    /\ IF ~valid_mac(mac_upper)
       THEN ok /\ UNCHANGED << authz, devices, faults, trip >>
       ELSE /\ authorized_macs' = authorized_macs \cup {mac_upper}
            /\ devices' = IF devices[mac_upper].seen
                          THEN [devices EXCEPT ![mac_upper].authorized = TRUE]
                          ELSE devices
            /\ saved_macs' = save_authorized_macs(authorized_macs', ok)
            /\ Outcome(ok)
            /\ trip' = [trip EXCEPT ![mac_upper] =
                          IF Blocked(mac_upper) /\ Quiet(mac_upper)
                          THEN "authorized"
                          ELSE IF @ = "authorized" THEN @ ELSE "none"]
    /\ UNCHANGED ingest
    /\ UNCHANGED << packets, threat_log, firewall, blocked_devices, alerts, pc,
                    call, resp, sweepLoc >>

\* POST /api/unauthorize/<mac>
unauthorize_mac(mac, ok) ==
    LET mac_upper == upper(mac) IN
    /\ authorized_macs' = authorized_macs \ {mac_upper}
    /\ devices' = IF mac_upper \in Macs /\ devices[mac_upper].seen
                  THEN [devices EXCEPT ![mac_upper].authorized = FALSE]
                  ELSE devices
    /\ saved_macs' = save_authorized_macs(authorized_macs', ok)
    /\ Outcome(ok)
    /\ trip' = [m \in Macs |->
                  IF m # mac_upper \/ trip[m] = "revoked" THEN trip[m]
                  ELSE IF /\ trip[m] = "authorized"
                          /\ m \in authorized_macs
                          /\ Unblocked(m) /\ Quiet(m)
                       THEN "revoked" ELSE "none"]
    /\ UNCHANGED ingest
    /\ UNCHANGED << packets, threat_log, firewall, blocked_devices, alerts, pc,
                    call, resp, sweepLoc >>

(* ---------------------------------------------------------------------- *)
(* block_with_iptables(mac, reason), one step per subprocess call          *)
(* ---------------------------------------------------------------------- *)

\* The loop of the sweep goes to the next record of the window, or the cycle ends.
next_record(i, w) == IF i + 1 > Len(w) THEN "sleep" ELSE "scan"

\* A sweep that notifies whatever block_with_iptables returned.
always_alert(t, result) == IF t = "sweep" THEN "alert" ELSE "idle"

\* Where a thread goes when block_with_iptables returns.
after_block(t, result) ==
    IF t = "sweep"
    THEN IF result THEN "alert" ELSE next_record(idx, window)
    ELSE "idle"

\* The response of POST /api/block/<mac> for a result of block_with_iptables:
\* 200 "blocked" or 500 "Failed to block".  mac is the MAC the call was for;
\* the route echoes it as it was spelled in the URL.
block_response(result, mac) ==
    [status |-> IF result THEN "blocked" ELSE "error", mac |-> mac]

\* A thread is inside block_with_iptables or unblock_mac, past its first command.
InCall(t) == pc[t] \in {"bw_input", "bw_forward", "bw_log", "ub_forward", "ub_db"}

\* A listing in which grep never finds the MAC.
never_listed(chain, mac) == FALSE

\* iptables -L INPUT -n | grep -i {mac}: returncode 0 iff a rule is listed.
is_listed(chain, mac) == chain[mac] > 0

bw_check(t, serial) ==
    /\ pc[t] = "bw_check"
    /\ serial => \A u \in Threads \ {t} : ~InCall(u)
    /\ IF ~is_listed(INPUT, call[t].mac)
       THEN /\ pc' = [pc EXCEPT ![t] = "bw_input"]
            /\ UNCHANGED << call, resp, idx >>
       ELSE /\ pc' = [pc EXCEPT ![t] = after_block(t, FALSE)]
            /\ call' = [call EXCEPT ![t] = NoCall]
            /\ resp' = IF t = "req" THEN block_response(FALSE, call[t].mac)
                       ELSE resp
            /\ idx' = IF t = "sweep" THEN idx + 1 ELSE idx
    /\ UNCHANGED ingest
    /\ UNCHANGED << authz, registry, threat_log, firewall, blocked_devices,
                    alerts, window, processed_macs, cycles, faults, trip >>

\* iptables -A INPUT -m mac --mac-source {mac} -j DROP
bw_input(t, ok) ==
    /\ pc[t] = "bw_input"
    /\ INPUT' = IF ok THEN [INPUT EXCEPT ![call[t].mac] = @ + 1] ELSE INPUT
    /\ call' = [call EXCEPT ![t].result1 = ok]
    /\ pc' = [pc EXCEPT ![t] = "bw_forward"]
    /\ Outcome(ok)
    /\ UNCHANGED ingest
    /\ UNCHANGED << authz, registry, threat_log, FORWARD, blocked_devices,
                    alerts, resp, sweepLoc, trip >>

\* iptables -A FORWARD -m mac --mac-source {mac} -j DROP
bw_forward(t, ok) ==
    /\ pc[t] = "bw_forward"
    /\ FORWARD' = IF ok THEN [FORWARD EXCEPT ![call[t].mac] = @ + 1] ELSE FORWARD
    /\ call' = [call EXCEPT ![t].result2 = ok]
    /\ pc' = [pc EXCEPT ![t] = "bw_log"]
    /\ Outcome(ok)
    /\ UNCHANGED ingest
    /\ UNCHANGED << authz, registry, threat_log, INPUT, blocked_devices,
                    alerts, resp, sweepLoc, trip >>

\* log_blocked_device(mac, reason); return True
bw_log(t) ==
    /\ pc[t] = "bw_log"
    /\ blocked_devices' =
           log_blocked_device(blocked_devices, call[t].mac, "reason")
    /\ pc' = [pc EXCEPT ![t] = after_block(t, TRUE)]
    /\ resp' = IF t = "req" THEN block_response(TRUE, call[t].mac) ELSE resp
    /\ call' = IF t = "req" THEN [call EXCEPT ![t] = NoCall] ELSE call
    /\ UNCHANGED ingest
    /\ UNCHANGED << authz, registry, threat_log, firewall, alerts, sweepLoc,
                    faults, trip >>

block_with_iptables(t, fw, serial) ==
    \/ bw_check(t, serial)
    \/ \E ok \in fw : bw_input(t, ok)
    \/ \E ok \in fw : bw_forward(t, ok)
    \/ bw_log(t)

(* ---------------------------------------------------------------------- *)
(* unblock_mac(mac), one step per subprocess call                          *)
(* ---------------------------------------------------------------------- *)

\* iptables -D <chain> -m mac --mac-source {mac} -j DROP removes one rule;
\* with no such rule the command exits non-zero whatever else happens.
iptables_delete(chain, mac, ok) ==
    IF ok /\ chain[mac] > 0 THEN [chain EXCEPT ![mac] = @ - 1] ELSE chain

delete_outcome(chain, mac, ok) ==
    IF chain[mac] > 0 THEN Outcome(ok) ELSE ok /\ UNCHANGED faults

\* The return codes are kept in call although unblock_mac never reads them.
ub_input(t, ok, serial) ==
    /\ pc[t] = "ub_input"
    /\ serial => \A u \in Threads \ {t} : ~InCall(u)
    /\ INPUT' = iptables_delete(INPUT, call[t].mac, ok)
    /\ call' = [call EXCEPT ![t].result1 = ok /\ INPUT[call[t].mac] > 0]
    /\ pc' = [pc EXCEPT ![t] = "ub_forward"]
    /\ delete_outcome(INPUT, call[t].mac, ok)
    /\ UNCHANGED ingest
    /\ UNCHANGED << authz, registry, threat_log, FORWARD, blocked_devices,
                    alerts, resp, sweepLoc, trip >>

ub_forward(t, ok) ==
    /\ pc[t] = "ub_forward"
    /\ FORWARD' = iptables_delete(FORWARD, call[t].mac, ok)
    /\ call' = [call EXCEPT ![t].result2 = ok /\ FORWARD[call[t].mac] > 0]
    /\ pc' = [pc EXCEPT ![t] = "ub_db"]
    /\ delete_outcome(FORWARD, call[t].mac, ok)
    /\ UNCHANGED ingest
    /\ UNCHANGED << authz, registry, threat_log, INPUT, blocked_devices,
                    alerts, resp, sweepLoc, trip >>

\* unblock_mac_in_db(mac); return True
ub_db(t) ==
    /\ pc[t] = "ub_db"
    /\ blocked_devices' = unblock_mac_in_db(blocked_devices, call[t].mac)
    /\ pc' = [pc EXCEPT ![t] = "idle"]
    /\ resp' = [status |-> "unblocked", mac |-> call[t].mac]
    /\ call' = [call EXCEPT ![t] = NoCall]
    /\ UNCHANGED ingest
    /\ UNCHANGED << authz, registry, threat_log, firewall, alerts, sweepLoc,
                    faults, trip >>

unblock_mac(t, fw, serial) ==
    \/ \E ok \in fw : ub_input(t, ok, serial)
    \/ \E ok \in fw : ub_forward(t, ok)
    \/ ub_db(t)

(* ---------------------------------------------------------------------- *)
(* Routes that block and unblock                                           *)
(* ---------------------------------------------------------------------- *)

\* POST /api/block/<mac>
block_device(mac) ==
    /\ pc["req"] = "idle"
    /\ pc' = [pc EXCEPT !["req"] = "bw_check"]
    /\ call' = [call EXCEPT !["req"] = [NoCall EXCEPT !.mac = upper(mac)]]
    /\ resp' = NoResponse
    /\ trip' = [trip EXCEPT ![upper(mac)] = "none"]
    /\ UNCHANGED ingest
    /\ UNCHANGED << authz, registry, threat_log, firewall, blocked_devices,
                    alerts, sweepLoc, faults >>

\* POST /api/unblock/<mac>
unblock_device(mac) ==
    /\ pc["req"] = "idle"
    /\ pc' = [pc EXCEPT !["req"] = "ub_input"]
    /\ call' = [call EXCEPT !["req"] = [NoCall EXCEPT !.mac = upper(mac)]]
    /\ resp' = NoResponse
    /\ UNCHANGED ingest
    /\ UNCHANGED << authz, registry, threat_log, firewall, blocked_devices,
                    alerts, sweepLoc, faults, trip >>

(* ---------------------------------------------------------------------- *)
(* auto_blocking_thread                                                    *)
(* ---------------------------------------------------------------------- *)

\* Top of the while loop: for packet in packets[-100:]
sweep_start ==
    /\ pc["sweep"] = "sleep"
    /\ cycles < MaxCycles
    /\ cycles' = cycles + 1
    /\ window' = LastN(packets, SweepWindow)
    /\ idx' = 1
    /\ processed_macs' = {}
    /\ pc' = [pc EXCEPT !["sweep"] =
                IF Len(packets) = 0 THEN "sleep" ELSE "scan"]
    /\ UNCHANGED ingest
    /\ UNCHANGED << authz, registry, threat_log, firewall, blocked_devices,
                    alerts, call, resp, faults, trip >>

\* except Exception of the while loop: the for loop is left, the thread
\* sleeps and starts a new cycle.
sweep_except ==
    /\ pc' = [pc EXCEPT !["sweep"] = "sleep"]
    /\ call' = [call EXCEPT !["sweep"] = NoCall]
    /\ UNCHANGED << threat_log, processed_macs, idx >>

\* A cycle that does not remember the MACs it has dealt with.
forget_mac(done, mac) == done

\* processed_macs.add(mac)
add_processed(done, mac) == done \cup {mac}

\* One iteration up to the call of block_with_iptables.
sweep_packet ==
    /\ pc["sweep"] = "scan"
    /\ IF raises(window[idx]) THEN sweep_except ELSE
       LET intrusion == check_intrusion(window[idx], authorized_macs)
           blocks == /\ intrusion.found
                     /\ intrusion.mac \notin processed_macs
                     /\ intrusion.attack_type \in AutoBlockTypes
       IN  /\ threat_log' =
                 IF intrusion.found
                 THEN AppendCapped(threat_log,
                                   [mac |-> intrusion.mac,
                                    type |-> intrusion.attack_type,
                                    reason |-> intrusion.reason],
                                   ThreatLogCap)
                 ELSE threat_log
           /\ processed_macs' =
                 IF intrusion.found
                 THEN add_processed(processed_macs, intrusion.mac)
                 ELSE processed_macs
           /\ IF blocks
              THEN /\ pc' = [pc EXCEPT !["sweep"] = "bw_check"]
                   /\ call' = [call EXCEPT !["sweep"] =
                                 [NoCall EXCEPT !.mac = intrusion.mac]]
                   /\ idx' = idx
              ELSE /\ pc' = [pc EXCEPT !["sweep"] = next_record(idx, window)]
                   /\ call' = call
                   /\ idx' = idx + 1
    /\ UNCHANGED ingest
    /\ UNCHANGED << authz, registry, firewall, blocked_devices, alerts, resp,
                    window, cycles, faults, trip >>

\* An SMTP client whose errors reach the caller.
smtp_unguarded(ok) == [sent |-> ok, raised |-> ~ok]

\* send_email_alert(subject, body): the message is sent (ok), or the SMTP
\* error is caught and False is returned.
send_email_alert(ok) == [sent |-> ok, raised |-> FALSE]

\* send_intrusion_alert(...), called when block_with_iptables returned True;
\* the sweep ignores what it returns.
send_intrusion_alert(ok) ==
    /\ pc["sweep"] = "alert"
    /\ alerts' = [alerts EXCEPT ![call["sweep"].mac] = @ + 1]
    /\ IF send_email_alert(ok).raised
       THEN /\ pc' = [pc EXCEPT !["sweep"] = "sleep"]
            /\ idx' = idx
       ELSE /\ pc' = [pc EXCEPT !["sweep"] = next_record(idx, window)]
            /\ idx' = idx + 1
    /\ call' = [call EXCEPT !["sweep"] = NoCall]
    /\ Outcome(ok)
    /\ UNCHANGED ingest
    /\ UNCHANGED << authz, registry, threat_log, firewall, blocked_devices,
                    resp, window, processed_macs, cycles, trip >>

auto_blocking_thread(fw, mail, serial) ==
    \/ sweep_start
    \/ sweep_packet
    \/ block_with_iptables("sweep", fw, serial)
    \/ \E ok \in mail : send_intrusion_alert(ok)

(* ---------------------------------------------------------------------- *)
(* Specifications                                                          *)
(* ---------------------------------------------------------------------- *)

\* inputs: the telemetry records posted; fw, mail, save: the outcomes the
\* firewall commands, the mail server and the file write may have; serial:
\* block/unblock calls do not overlap.
Server(inputs, fw, mail, save, serial) ==
    \/ \E data \in inputs : Len(packets) < MaxPackets /\ receive_packet(data)
    \/ \E mac \in UrlMacs, ok \in save : authorize_mac(mac, ok)
    \/ \E mac \in UrlMacs, ok \in save : unauthorize_mac(mac, ok)
    \/ \E mac \in UrlMacs : block_device(mac)
    \/ \E mac \in UrlMacs : unblock_device(mac)
    \/ block_with_iptables("req", fw, serial)
    \/ unblock_mac("req", fw, serial)
    \/ auto_blocking_thread(fw, mail, serial)

\* External commands may fail; block and unblock calls run one after the
\* other.
Next == Server(PacketInputs, BOOLEAN, BOOLEAN, BOOLEAN, TRUE)
Spec == Init /\ [][Next]_vars

\* Threads interleave freely; every external command succeeds.
NextReliable == Server(PacketInputs, {TRUE}, {TRUE}, {TRUE}, FALSE)
SpecReliable == Init /\ [][NextReliable]_vars

\* Every command succeeds; block and unblock calls run one after the other.
NextSerial == Server(PacketInputs, {TRUE}, {TRUE}, {TRUE}, TRUE)
SpecSerial == Init /\ [][NextSerial]_vars

\* The sweep over the records posted, up to the given number, one of which
\* may be malformed; the mail server may fail; an operator may unblock.
SweepOf(inputs, records) ==
    \/ \E data \in inputs : Len(packets) < records /\ receive_packet(data)
    \/ \E mac \in Macs : unblock_device(mac)
    \/ unblock_mac("req", {TRUE}, TRUE)
    \/ auto_blocking_thread({TRUE}, BOOLEAN, TRUE)
Sweep(records) == SweepOf(SweepInputs, records)
NextSweep == Sweep(MaxWindow)
SpecSweep == Init /\ [][NextSweep]_vars

\* As many records between two cycles as a cycle looks at: a hostile record
\* of BB followed by 99 records of AA that yield no finding, all received
\* while the thread sleeps, its cycles so far having found no packets (the
\* counter of cycles, which bounds the run, starts at 0).
Backlog ==
    [i \in 1..SweepWindow |->
        IF i = 1
        THEN [mac |-> "BB", ssid |-> YOUR_SSID, attack_type |-> "auth_attempt"]
        ELSE [mac |-> "AA", ssid |-> "other", attack_type |-> "probe_request"]]

InitBacklog ==
    /\ authorized_macs = {}
    /\ packets = Backlog
    /\ devices =
         [m \in Macs |->
            [seen |-> TRUE, packet_count |-> records_of(Backlog, m),
             attack_types |->
                 {Backlog[i].attack_type :
                     i \in {j \in 1..Len(Backlog) : Backlog[j].mac = m}},
             authorized |-> FALSE]]
    /\ threat_log = << >>
    /\ resp = NoResponse
    /\ faults = 0
    /\ SweepStart
    /\ IngestStart
    /\ listing_upper = TRUE

\* One more record may arrive; the thread runs its cycles.
BacklogInputs ==
    {[mac |-> "BB", ssid |-> YOUR_SSID, attack_type |-> "auth_attempt"],
     [mac |-> "AA", ssid |-> "other", attack_type |-> "probe_request"]}
NextBacklog ==
    \/ \E data \in BacklogInputs :
           Len(packets) < Len(Backlog) + 1 /\ receive_packet(data)
    \/ auto_blocking_thread({TRUE}, {TRUE}, TRUE)
SpecBacklog == InitBacklog /\ [][NextBacklog]_vars

\* Records without an identifier: the MAC is empty or the all-zero address,
\* the label is a hostile one; and one hostile record of an identifier.
BlankInputs ==
    { [mac |-> "", ssid |-> "other", attack_type |-> "deauth_attack"],
      [mac |-> ZeroMac, ssid |-> YOUR_SSID, attack_type |-> "auth_attempt"],
      [mac |-> "BB", ssid |-> YOUR_SSID, attack_type |-> "auth_attempt"] }
NextBlank == SweepOf(BlankInputs, MaxWindow)
SpecBlank == Init /\ [][NextBlank]_vars

\* Ctrl+C: KeyboardInterrupt is raised in the main thread, app.run returns
\* and the interpreter exits.  blocker_thread is a daemon thread: it is not
\* joined, it ends with the process wherever it stands, and so do the
\* request threads.
shutdown ==
    /\ pc["sweep"] # "exit"
    /\ pc' = [t \in Threads |-> "exit"]
    /\ UNCHANGED ingest
    /\ UNCHANGED << authz, registry, threat_log, firewall, blocked_devices,
                    alerts, call, resp, sweepLoc, faults, trip >>

\* The server until it is shut down.
NextShutdown ==
    \/ pc["sweep"] # "exit" /\ Sweep(MaxWindow)
    \/ shutdown
SpecShutdown == Init /\ [][NextShutdown]_vars

\* The entry check_intrusion appends to threat_log for a record.
log_entry(packet) ==
    LET intrusion == check_intrusion(packet, {})
    IN  [mac |-> intrusion.mac, type |-> intrusion.attack_type,
         reason |-> intrusion.reason]

\* Three records, each with a finding, and the log after the cycles that
\* went over them so far: one entry short of the cap.
HistoryInputs ==
    << [mac |-> "AA", ssid |-> "other",   attack_type |-> "deauth_attack"],
       [mac |-> "AA", ssid |-> YOUR_SSID, attack_type |-> "probe_request"],
       [mac |-> "BB", ssid |-> YOUR_SSID, attack_type |-> "auth_attempt"] >>
History ==
    [k \in 1..(ThreatLogCap - 1) |->
        log_entry(HistoryInputs[((k - 1) % Len(HistoryInputs)) + 1])]

\* server.py after the sweep has gone over HistoryInputs often enough for
\* the log to hold the entries of History: AA and BB were blocked and
\* reported by the first of those cycles.
InitFullLog ==
    /\ authorized_macs = {}
    /\ packets = HistoryInputs
    /\ devices =
         [m \in Macs |->
            [seen |-> TRUE, packet_count |-> records_of(HistoryInputs, m),
             attack_types |->
                 {HistoryInputs[i].attack_type :
                     i \in {j \in 1..Len(HistoryInputs) :
                                HistoryInputs[j].mac = m}},
             authorized |-> FALSE]]
    /\ threat_log = History
    /\ resp = NoResponse
    /\ faults = 0
    /\ saved_macs = {}
    /\ INPUT = [m \in Macs |-> 1]
    /\ FORWARD = [m \in Macs |-> 1]
    /\ blocked_devices =
         log_blocked_device(log_blocked_device(EmptyBag, "AA", "reason"),
                            "BB", "reason")
    /\ alerts = [m \in Macs |-> 1]
    /\ pc = [t \in Threads |-> IF t = "sweep" THEN "sleep" ELSE "idle"]
    /\ call = [t \in Threads |-> NoCall]
    /\ window = HistoryInputs
    /\ idx = Len(HistoryInputs) + 1
    /\ processed_macs = Macs
    /\ cycles = 0
    /\ trip = [m \in Macs |-> "none"]
    /\ rx = [r \in RxThreads |-> NoRx]
    /\ monitor = NewMonitor
    /\ IngestStart
    /\ listing_upper = TRUE

NextFullLog == Sweep(Len(HistoryInputs) + 1)
SpecFullLog == InitFullLog /\ [][NextFullLog]_vars

(* ====================================================================== *)
(* Part II: Server.py                                                      *)
(* ====================================================================== *)

\* Server.py:17  the example whitelist, one entry kept.
WHITELIST_MACS == {"AA"}

\* State of server.py only, the requests in flight where the handlers are
\* atomic, and the serial monitor.
sweepOnly == << saved_macs, INPUT, FORWARD, blocked_devices, alerts, pc, call,
                window, idx, processed_macs, cycles, trip, rx, monitor >>

\* Telemetry records posted to /api/packet of Server.py; the MAC is used as
\* it arrives.
IngestInputs == [mac : UrlMacs, packet_type : {"deauth", "data"}]

\* JSON bodies of POST /api/settings; absent keys are given as 0, which
\* data.get(...) treats the same way.  The bodies drawn change the threshold
\* only.
SettingInputs == [threshold : {0, -1}, duration : {0}]

\* The kernel compares MAC addresses as bytes: a rule is keyed by the
\* address, whatever case it was typed in.
mac_bytes(mac) == upper(mac)

\* str.lower() on the identifiers the model draws.
lower(s) ==
    CASE s = "AA" -> "aa"
      [] s = "BB" -> "bb"
      [] OTHER    -> s

\* IPTablesManager.list_blocked(): the MACs as iptables -L prints them.
list_blocked(chain) ==
    { IF listing_upper THEN m ELSE lower(m) : m \in { x \in Macs : chain[x] > 0 } }

\* IPTablesManager.is_blocked(mac_address)
is_blocked(chain, mac_address) == mac_address \in list_blocked(chain)

\* The elements of a sequence that satisfy a condition.
Filter(seq, P(_)) == SelectSeq(seq, P)

\* IPTablesManager.block_mac(mac_address, duration) at time t; ok: the
\* iptables -A command succeeds.  ran: the -A command was run.
block_mac(chain, pending, mac_address, duration, t, ok) ==
    IF chain[mac_bytes(mac_address)] > 0
    THEN [result |-> FALSE, chain |-> chain, timers |-> pending, ran |-> FALSE]
    ELSE IF ok
    THEN [result |-> TRUE,
          chain |-> [chain EXCEPT ![mac_bytes(mac_address)] = @ + 1],
          timers |-> IF duration > 0
                     THEN pending (+) SetToBag({[mac |-> mac_address,
                                                 at |-> t + duration]})
                     ELSE pending,
          ran |-> TRUE]
    ELSE [result |-> FALSE, chain |-> chain, timers |-> pending, ran |-> TRUE]

\* IPTablesManager.cleanup_rules(): iptables -F WIDS_BLOCK
cleanup_rules(chain, ok) == IF ok THEN [m \in Macs |-> 0] ELSE chain

\* IPTablesManager.unblock_mac(mac_address); ok: iptables -D succeeds when
\* the rule is there; flush: the iptables -F of cleanup_rules succeeds.
\* failed: the number of commands that failed although they could succeed;
\* ran: whether the outcomes ok and flush were consumed.
iptables_unblock_mac(chain, mac_address, ok, flush) ==
    LET present == chain[mac_bytes(mac_address)] > 0 IN
    IF present /\ ok
    THEN [result |-> TRUE,
          chain |-> [chain EXCEPT ![mac_bytes(mac_address)] = @ - 1],
          failed |-> 0, ran |-> <<present, FALSE>>]
    ELSE [result |-> FALSE,
          chain |-> cleanup_rules(chain, flush),
          failed |-> (IF present THEN 1 ELSE 0) + (IF flush THEN 0 ELSE 1),
          ran |-> <<present, TRUE>>]

\* n external commands fail in this step.
Failures(n) ==
    /\ faults + n <= MaxFaults
    /\ faults' = faults + n

\* ThreatDetector.analyze_packet(packet_data) at time t: the findings and
\* the updated packet_rates.
\* The flood test on the number of timestamps in the window taken as a count,
\* not as a rate.
count_above(n, threshold) == n > threshold

\* pps = len(packet_rates[mac]) / 10.0; pps > AUTO_BLOCK_THRESHOLD
pps_above(n, threshold) == n > RateWindow * threshold

analyze_packet(packet_data, rates, authorized, threshold, t) ==
    LET mac == packet_data.mac
        deauth == IF packet_data.packet_type = "deauth"
                  THEN << [type |-> "deauthentication_attack",
                           severity |-> "high"] >>
                  ELSE << >>
        recent == Filter(Append(rates[mac], t), LAMBDA x : t - x < RateWindow)
        flood == IF mac # "" /\ pps_above(Len(recent), threshold)
                 THEN << [type |-> "packet_flood", severity |-> "critical"] >>
                 ELSE << >>
        unauthorized == IF mac \notin authorized
                        THEN << [type |-> "unauthorized_device",
                                 severity |-> "medium"] >>
                        ELSE << >>
    IN  [threats |-> deauth \o flood \o unauthorized,
         rates |-> IF mac # "" THEN [rates EXCEPT ![mac] = recent] ELSE rates]

\* log_threat for each finding of a packet, in order.
log_threats(log, mac, threats) ==
    LET RECURSIVE go(_, _)
        go(l, i) == IF i > Len(threats) THEN l
                    ELSE go(AppendCapped(l, [mac |-> mac,
                                             type |-> threats[i].type,
                                             severity |-> threats[i].severity],
                                         ThreatLogCap), i + 1)
    IN  go(log, 1)

(* ---------------------------------------------------------------------- *)
(* Routes of Server.py; each handler is one step.  Of the responses only   *)
(* that of /api/packet is kept.                                            *)
(* ---------------------------------------------------------------------- *)

NotBlocking == [result |-> FALSE, chain |-> WIDS_BLOCK, timers |-> timers,
                ran |-> FALSE]
NotUnblocking == [result |-> FALSE, chain |-> WIDS_BLOCK, failed |-> 0,
                  ran |-> <<FALSE, FALSE>>]

\* The outcome of a command that is not run is drawn as success.
Drawn(ok, ran) == ran \/ ok

\* POST /api/packet
Srv_receive_packet(data, ok) ==
    LET mac == data.mac
        d1 == IF ~devices[mac].seen
              THEN [seen |-> TRUE, packet_count |-> 1,
                    authorized |-> mac \in authorized_macs,
                    threat_level |-> "normal", blocked |-> FALSE]
              ELSE [devices[mac] EXCEPT !.packet_count = @ + 1]
        d2 == [d1 EXCEPT !.blocked =
                   is_blocked(WIDS_BLOCK, mac) \/ mac \in blocked_macs]
        a  == analyze_packet(data, packet_rates, authorized_macs,
                             AUTO_BLOCK_THRESHOLD, now)
        critical == \E i \in 1..Len(a.threats) :
                        a.threats[i].severity = "critical"
        b  == IF critical /\ ~d2.authorized
              THEN block_mac(WIDS_BLOCK, timers, mac, BLOCK_DURATION, now, ok)
              ELSE NotBlocking
        d3 == IF b.result THEN [d2 EXCEPT !.blocked = TRUE] ELSE d2
        d4 == IF Len(a.threats) > 0
              THEN [d3 EXCEPT !.threat_level = a.threats[1].severity] ELSE d3
    IN  /\ packets' = AppendCapped(packets, data, PacketCap)
        /\ devices' = [devices EXCEPT ![mac] = d4]
        /\ threat_log' = log_threats(threat_log, mac, a.threats)
        /\ WIDS_BLOCK' = b.chain
        /\ timers' = b.timers
        /\ BagCardinality(b.timers) <= MaxTimers
        /\ blocked_macs' = IF b.result THEN blocked_macs \cup {mac}
                           ELSE blocked_macs
        /\ packet_rates' =
               [a.rates EXCEPT ![mac] =
                   Filter(Append(@, now), LAMBDA x : now - x < RateKeep)]
        /\ Failures(IF b.ran /\ ~ok THEN 1 ELSE 0)
        /\ Drawn(ok, b.ran)
        /\ resp' = [status |-> "received", mac |-> mac,
                    blocked |-> d4.blocked, authorized |-> d4.authorized,
                    auto_blocked |-> b.result,
                    threats_detected |-> Len(a.threats)]
        /\ UNCHANGED << authorized_macs, now, ticks, AUTO_BLOCK_THRESHOLD,
                        BLOCK_DURATION, listing_upper >>
        /\ UNCHANGED sweepOnly

\* POST /api/authorize/<mac>
Srv_authorize_mac(mac, ok, flush) ==
    LET mac_upper == upper(mac)
        u == IF mac_upper \in blocked_macs
             THEN iptables_unblock_mac(WIDS_BLOCK, mac_upper, ok, flush)
             ELSE NotUnblocking
    IN  /\ authorized_macs' = authorized_macs \cup {mac_upper}
        /\ blocked_macs' = blocked_macs \ {mac_upper}
        /\ WIDS_BLOCK' = u.chain
        /\ Failures(u.failed)
        /\ Drawn(ok, u.ran[1]) /\ Drawn(flush, u.ran[2])
        /\ devices' = IF mac_upper \in DOMAIN devices /\ devices[mac_upper].seen
                      THEN [devices EXCEPT ![mac_upper].authorized = TRUE,
                                           ![mac_upper].blocked = FALSE]
                      ELSE devices
        /\ UNCHANGED << packets, threat_log, resp, packet_rates, timers, now, ticks,
                        AUTO_BLOCK_THRESHOLD, BLOCK_DURATION, listing_upper >>
        /\ UNCHANGED sweepOnly

\* POST /api/unauthorize/<mac>
Srv_unauthorize_mac(mac) ==
    LET mac_upper == upper(mac) IN
    /\ authorized_macs' = authorized_macs \ {mac_upper}
    /\ devices' = IF devices[mac_upper].seen
                  THEN [devices EXCEPT ![mac_upper].authorized = FALSE]
                  ELSE devices
    /\ UNCHANGED << packets, threat_log, resp, faults >>
    /\ UNCHANGED ingest
    /\ UNCHANGED sweepOnly

\* POST /api/device/<mac>/toggle_auth
toggle_authorization(mac) ==
    LET mac_upper == upper(mac)
        grant == mac_upper \notin authorized_macs
    IN  /\ authorized_macs' = IF grant THEN authorized_macs \cup {mac_upper}
                              ELSE authorized_macs \ {mac_upper}
        /\ devices' = IF devices[mac_upper].seen
                      THEN [devices EXCEPT ![mac_upper].authorized = grant]
                      ELSE devices
        /\ UNCHANGED << packets, threat_log, resp, faults >>
        /\ UNCHANGED ingest
        /\ UNCHANGED sweepOnly

\* POST /api/device/<mac>/toggle_block
toggle_block(mac, ok, flush) ==
    LET mac_upper == upper(mac)
        unblocking == mac_upper \in blocked_macs
                          \/ is_blocked(WIDS_BLOCK, mac_upper)
        u == IF unblocking
             THEN iptables_unblock_mac(WIDS_BLOCK, mac_upper, ok, flush)
             ELSE NotUnblocking
        b == IF unblocking THEN NotBlocking
             ELSE block_mac(WIDS_BLOCK, timers, mac_upper, BLOCK_DURATION,
                            now, ok)
    IN  /\ blocked_macs' = IF unblocking THEN blocked_macs \ {mac_upper}
                           ELSE blocked_macs \cup {mac_upper}
        /\ WIDS_BLOCK' = IF unblocking THEN u.chain ELSE b.chain
        /\ timers' = b.timers
        /\ Failures(IF unblocking THEN u.failed
                    ELSE IF b.ran /\ ~ok THEN 1 ELSE 0)
        /\ Drawn(ok, u.ran[1] \/ b.ran) /\ Drawn(flush, u.ran[2])
        /\ devices' = IF devices[mac_upper].seen
                      THEN [devices EXCEPT ![mac_upper].blocked = ~unblocking]
                      ELSE devices
        /\ UNCHANGED << authorized_macs, packets, threat_log, resp, packet_rates,
                        now, ticks, AUTO_BLOCK_THRESHOLD, BLOCK_DURATION,
                        listing_upper >>
        /\ UNCHANGED sweepOnly

\* POST /api/unblock/<mac>
Srv_unblock_device(mac, ok, flush) ==
    LET mac_upper == upper(mac)
        u == iptables_unblock_mac(WIDS_BLOCK, mac_upper, ok, flush)
    IN  /\ blocked_macs' = blocked_macs \ {mac_upper}
        /\ WIDS_BLOCK' = u.chain
        /\ Failures(u.failed)
        /\ Drawn(ok, u.ran[1]) /\ Drawn(flush, u.ran[2])
        /\ devices' = IF devices[mac_upper].seen
                      THEN [devices EXCEPT ![mac_upper].blocked = FALSE]
                      ELSE devices
        /\ UNCHANGED << authorized_macs, packets, threat_log, resp, packet_rates,
                        timers, now, ticks, AUTO_BLOCK_THRESHOLD,
                        BLOCK_DURATION, listing_upper >>
        /\ UNCHANGED sweepOnly

\* POST /api/settings: a key that is absent or 0 leaves the setting alone.
update_settings(data) ==
    /\ AUTO_BLOCK_THRESHOLD' = IF data.threshold # 0 THEN data.threshold
                               ELSE AUTO_BLOCK_THRESHOLD
    /\ BLOCK_DURATION' = IF data.duration # 0 THEN data.duration
                         ELSE BLOCK_DURATION
    /\ UNCHANGED << authorized_macs, packets, devices, threat_log, resp, faults,
                    blocked_macs, packet_rates, WIDS_BLOCK, timers, now, ticks,
                    listing_upper >>
    /\ UNCHANGED sweepOnly

\* POST /api/clear_blocks
clear_all_blocks(flush) ==
    /\ WIDS_BLOCK' = cleanup_rules(WIDS_BLOCK, flush)
    /\ Failures(IF flush THEN 0 ELSE 1)
    /\ blocked_macs' = {}
    /\ devices' = [m \in UrlMacs |->
                     IF devices[m].seen
                     THEN [devices[m] EXCEPT !.blocked = FALSE]
                     ELSE devices[m]]
    /\ UNCHANGED << authorized_macs, packets, threat_log, resp, packet_rates, timers,
                    now, ticks, AUTO_BLOCK_THRESHOLD, BLOCK_DURATION,
                    listing_upper >>
    /\ UNCHANGED sweepOnly

\* A threading.Timer started by block_mac expires and runs unblock_mac.
timer_fire(timer, ok, flush) ==
    LET u == iptables_unblock_mac(WIDS_BLOCK, timer.mac, ok, flush) IN
    /\ BagIn(timer, timers)
    /\ timer.at <= now
    /\ timers' = timers (-) SetToBag({timer})
    /\ WIDS_BLOCK' = u.chain
    /\ Failures(u.failed)
    /\ Drawn(ok, u.ran[1]) /\ Drawn(flush, u.ran[2])
    /\ UNCHANGED << authorized_macs, packets, devices, threat_log, resp,
                    blocked_macs, packet_rates, now, ticks,
                    AUTO_BLOCK_THRESHOLD, BLOCK_DURATION, listing_upper >>
    /\ UNCHANGED sweepOnly

\* Time passes.
Tick(d) ==
    /\ now' = now + d
    /\ ticks' = ticks + 1
    /\ UNCHANGED << authorized_macs, packets, devices, threat_log, resp,
                    faults, blocked_macs, packet_rates, WIDS_BLOCK, timers,
                    AUTO_BLOCK_THRESHOLD, BLOCK_DURATION, listing_upper >>
    /\ UNCHANGED sweepOnly

\* Server.py after import: the whitelist is authorized, nothing is blocked.
InitIngest ==
    /\ authorized_macs = WHITELIST_MACS
    /\ packets = << >>
    /\ devices = [m \in UrlMacs |-> NoDevice]
    /\ threat_log = << >>
    /\ resp = NoResponse
    /\ faults = 0
    /\ SweepStart
    /\ IngestStart
    /\ listing_upper \in BOOLEAN

NextIngest ==
    \/ \E data \in IngestInputs, ok \in BOOLEAN :
           Len(packets) < MaxPackets /\ Srv_receive_packet(data, ok)
    \/ \E mac \in UrlMacs, ok, flush \in BOOLEAN :
           Srv_authorize_mac(mac, ok, flush)
    \/ \E mac \in UrlMacs : Srv_unauthorize_mac(mac)
    \/ \E mac \in UrlMacs : toggle_authorization(mac)
    \/ \E mac \in UrlMacs, ok, flush \in BOOLEAN :
           toggle_block(mac, ok, flush) /\ BagCardinality(timers') <= MaxTimers
    \/ \E mac \in UrlMacs, ok, flush \in BOOLEAN :
           Srv_unblock_device(mac, ok, flush)
    \/ \E data \in SettingInputs : update_settings(data)
    \/ \E flush \in BOOLEAN : clear_all_blocks(flush)
    \/ \E timer \in BagToSet(timers), ok, flush \in BOOLEAN :
           timer_fire(timer, ok, flush)
    \/ \E d \in TickSteps : ticks < MaxTicks /\ Tick(d)

SpecIngest == InitIngest /\ [][NextIngest]_vars

\* The authorization routes of Server.py with path segments that are MAC
\* addresses and one that is not.
NotAMac == "NOT-A-MAC"
AuthorizeInputs == UrlMacs \cup {NotAMac}

NextAuthorize ==
    \/ \E data \in IngestInputs :
           Len(packets) < MaxPackets /\ Srv_receive_packet(data, TRUE)
    \/ \E mac \in AuthorizeInputs : Srv_authorize_mac(mac, TRUE, TRUE)
    \/ \E mac \in UrlMacs : Srv_unauthorize_mac(mac)

SpecAuthorize == InitIngest /\ [][NextAuthorize]_vars

\* A burst of records from one identifier that is not authorized, with the
\* operator setting the threshold to 1 at some point or leaving the default.
MaxBurst == 15
BurstInputs == {[mac |-> "BB", packet_type |-> "data"]}
BurstSettings == {[threshold |-> 1, duration |-> 0]}

NextBurst ==
    \/ \E data \in BurstInputs :
           Len(packets) < MaxBurst /\ Srv_receive_packet(data, TRUE)
    \/ \E data \in BurstSettings : update_settings(data)
    \/ \E d \in TickSteps : ticks < MaxTicks /\ Tick(d)

SpecBurst == InitIngest /\ [][NextBurst]_vars

\* Blocks of BLOCK_DURATION that are taken back by hand and set again before
\* the first expiry timer runs: the commands succeed, the clock advances by
\* half a duration, and up to MaxPending timers are waiting.
MaxPending == 2
MaxElapsed == 3
ReblockSteps == {DefaultDuration \div 2}

NextReblock ==
    \/ \E mac \in UrlMacs :
           toggle_block(mac, TRUE, TRUE) /\ BagCardinality(timers') <= MaxPending
    \/ \E timer \in BagToSet(timers) : timer_fire(timer, TRUE, TRUE)
    \/ \E d \in ReblockSteps : ticks < MaxElapsed /\ Tick(d)

SpecReblock == InitIngest /\ [][NextReblock]_vars

(* ---------------------------------------------------------------------- *)
(* Part III.  The device registry of receive_packet (server.py; Server.py  *)
(* and Server1.py have the same upsert), one step per point at which       *)
(* another request thread can run, with the wall clock the handler reads.  *)
(* ---------------------------------------------------------------------- *)

\* Everything but packets, devices, rx and the clock.
registryFrame ==
    << authz, threat_log, firewall, blocked_devices, alerts, pc, call, resp,
       sweepLoc, faults, trip, blocked_macs, packet_rates, WIDS_BLOCK, timers,
       AUTO_BLOCK_THRESHOLD, BLOCK_DURATION, listing_upper, monitor >>

\* Steps of datetime.now() between two readings: it advances, by little or
\* by the inactivity TTL, or the wall clock is set back.
ClockSteps == {1, DeviceTTL, -1}

wall_clock(d) ==
    /\ ticks < MaxClock
    /\ now + d >= 0
    /\ now' = now + d
    /\ ticks' = ticks + 1
    /\ UNCHANGED << packets, devices, rx, registryFrame >>

\* packets.append(data) ... mac = data.get('mac', '').upper()
rx_store(r, data) ==
    /\ rx[r].pc = "idle"
    /\ Len(packets) < MaxUpserts
    /\ packets' = AppendCapped(packets, data, PacketCap)
    /\ rx' = [rx EXCEPT ![r] = [pc |-> "lookup", mac |-> upper(data.mac),
                                at |-> 0, attack_type |-> data.attack_type]]
    /\ UNCHANGED << devices, now, ticks, registryFrame >>

\* if mac not in devices: and the datetime.now() of the branch taken.
rx_lookup(r) ==
    /\ rx[r].pc = "lookup"
    /\ rx' = [rx EXCEPT ![r].pc = IF devices[rx[r].mac].seen THEN "update"
                                  ELSE "create",
                        ![r].at = now]
    /\ UNCHANGED << packets, devices, now, ticks, registryFrame >>

\* devices[mac] = {'first_seen': ..., 'last_seen': ..., 'packet_count': 1, ...}
rx_create(r) ==
    /\ rx[r].pc = "create"
    /\ devices' = [devices EXCEPT ![rx[r].mac] =
                      [seen |-> TRUE, first_seen |-> rx[r].at,
                       last_seen |-> rx[r].at, packet_count |-> 1,
                       attack_types |-> {rx[r].attack_type},
                       authorized |-> rx[r].mac \in authorized_macs]]
    /\ rx' = [rx EXCEPT ![r] = NoRx]
    /\ UNCHANGED << packets, now, ticks, registryFrame >>

\* devices[mac]['last_seen'] = datetime.now(); devices[mac]['packet_count'] += 1
rx_update(r) ==
    /\ rx[r].pc = "update"
    /\ devices' = [devices EXCEPT ![rx[r].mac] =
                      [@ EXCEPT !.last_seen = rx[r].at,
                                !.packet_count = @ + 1,
                                !.attack_types = @ \cup {rx[r].attack_type}]]
    /\ rx' = [rx EXCEPT ![r] = NoRx]
    /\ UNCHANGED << packets, now, ticks, registryFrame >>

\* A view that still lists a record whose age is the TTL.
get_devices_inclusive(devs, t) ==
    {m \in DOMAIN devs : devs[m].seen /\ t - devs[m].last_seen <= DeviceTTL}

\* GET /api/devices: the MACs of the records listed at time t.
get_devices(devs, t) ==
    {m \in DOMAIN devs : devs[m].seen /\ t - devs[m].last_seen < DeviceTTL}

\* threads: the request threads that serve /api/packet.
Registry(threads) ==
    \/ \E r \in threads, data \in PacketInputs : rx_store(r, data)
    \/ \E r \in threads : rx_lookup(r)
    \/ \E r \in threads : rx_create(r)
    \/ \E r \in threads : rx_update(r)
    \/ \E d \in ClockSteps : wall_clock(d)

\* Overlapping requests (app.run(threaded=True)).
NextRegistry == Registry(RxThreads)
SpecRegistry == Init /\ [][NextRegistry]_vars

\* One request at a time.
NextUpserts == Registry({"r1"})
SpecUpserts == Init /\ [][NextUpserts]_vars

(* ====================================================================== *)
(* Part IV: Server1.py, the authorization set and its file                 *)
(* ====================================================================== *)

\* Server1.py:732  packets beyond the cap are dropped oldest first.
RecentCap == 100

\* In the runs of Server1.py saved_macs is the content of the file: the JSON
\* array 'authorized_macs', or Corrupt, the file after a write that failed
\* part way, which does not parse.
Corrupt == << "{" >>

\* Everything Server1.py leaves alone.
authFrame ==
    << threat_log, firewall, blocked_devices, alerts, pc, call, resp, sweepLoc,
       trip, ingest >>

\* Telemetry records posted to /api/packet of Server1.py.
AuthInputs == [mac : UrlMacs]

\* list(authorized_macs): the elements once each, in the order the set
\* iterates, which the program does not choose.
listings(macs) ==
    { l \in UNION { [1..n -> macs] : n \in {Cardinality(macs)} } :
          \A i, j \in 1..Len(l) : l[i] = l[j] => i = j }

\* set(data.get('authorized_macs', WHITELIST_MACS)); a file that does not
\* parse raises, and the handler falls back to the whitelist.
load_authorized_macs(file) ==
    IF file = Corrupt THEN WHITELIST_MACS
    ELSE { file[i] : i \in 1..Len(file) }

\* A save that writes nothing.
save_skipped(file, list, ok, partial) == file

\* save_authorized_macs(): json.dump of the listing; a failure leaves the
\* file as it was (open() failed) or cut short (the write failed).  The
\* rewrite of the whitelist in the program's own source that follows does not
\* touch the file.
write_authorized_macs(file, list, ok, partial) ==
    IF ok THEN list ELSE IF partial THEN Corrupt ELSE file

\* The save at the end of a mutation of the set.
S1_save(ok, partial) ==
    /\ \E list \in listings(authorized_macs') :
           saved_macs' = write_authorized_macs(saved_macs, list, ok, partial)
    /\ ok => ~partial
    /\ Outcome(ok)

\* The flag of the device record keyed by the identifier, if there is one.
set_flag(devs, mac_upper, flag) ==
    IF devs[mac_upper].seen
    THEN [devs EXCEPT ![mac_upper].authorized = flag] ELSE devs

\* POST /api/packet
S1_receive_packet(data) ==
    LET mac == data.mac IN
    /\ Len(packets) < MaxUpserts
    /\ packets' = AppendCapped(packets, data, RecentCap)
    /\ devices' = [devices EXCEPT ![mac] =
                      IF ~devices[mac].seen
                      THEN [seen |-> TRUE, packet_count |-> 1,
                            authorized |-> mac \in authorized_macs]
                      ELSE [@ EXCEPT !.packet_count = @ + 1]]
    /\ UNCHANGED << authz, faults >>
    /\ UNCHANGED authFrame

\* POST /api/authorize/<mac>
S1_authorize_mac(mac, ok, partial) ==
    LET mac_upper == upper(mac) IN
    /\ IF ~valid_mac(mac_upper)
       THEN ok /\ ~partial /\ UNCHANGED << authz, devices, faults >>
       ELSE /\ authorized_macs' = authorized_macs \cup {mac_upper}
            /\ devices' = set_flag(devices, mac_upper, TRUE)
            /\ S1_save(ok, partial)
    /\ UNCHANGED packets
    /\ UNCHANGED authFrame

\* POST /api/unauthorize/<mac>
S1_unauthorize_mac(mac, ok, partial) ==
    LET mac_upper == upper(mac) IN
    /\ authorized_macs' = authorized_macs \ {mac_upper}
    /\ devices' = set_flag(devices, mac_upper, FALSE)
    /\ S1_save(ok, partial)
    /\ UNCHANGED packets
    /\ UNCHANGED authFrame

\* POST /api/device/<mac>/toggle_auth
S1_toggle_authorization(mac, ok, partial) ==
    LET mac_upper == upper(mac)
        grant == mac_upper \notin authorized_macs
    IN  /\ authorized_macs' = IF grant THEN authorized_macs \cup {mac_upper}
                              ELSE authorized_macs \ {mac_upper}
        /\ devices' = set_flag(devices, mac_upper, grant)
        /\ S1_save(ok, partial)
        /\ UNCHANGED packets
        /\ UNCHANGED authFrame

\* POST /api/reload_authorized
reload_authorized ==
    /\ authorized_macs' = load_authorized_macs(saved_macs)
    /\ UNCHANGED << saved_macs, packets, devices, faults >>
    /\ UNCHANGED authFrame

\* Server1.py after load_authorized_macs() at line 95 read a file that holds
\* an empty list.
InitAuth ==
    /\ saved_macs = << >>
    /\ authorized_macs = load_authorized_macs(saved_macs)
    /\ packets = << >>
    /\ devices = [m \in UrlMacs |-> NoDevice]
    /\ threat_log = << >>
    /\ resp = NoResponse
    /\ faults = 0
    /\ INPUT = [m \in Macs |-> 0]
    /\ FORWARD = [m \in Macs |-> 0]
    /\ blocked_devices = EmptyBag
    /\ alerts = [m \in Macs |-> 0]
    /\ pc = [t \in Threads |-> IF t = "sweep" THEN "sleep" ELSE "idle"]
    /\ call = [t \in Threads |-> NoCall]
    /\ window = << >>
    /\ idx = 1
    /\ processed_macs = {}
    /\ cycles = 0
    /\ trip = [m \in Macs |-> "none"]
    /\ rx = [r \in RxThreads |-> NoRx]
    /\ monitor = NewMonitor
    /\ IngestStart
    /\ listing_upper = TRUE

NextAuth ==
    \/ \E data \in AuthInputs : S1_receive_packet(data)
    \/ \E mac \in UrlMacs, ok, partial \in BOOLEAN :
           S1_authorize_mac(mac, ok, partial)
    \/ \E mac \in UrlMacs, ok, partial \in BOOLEAN :
           S1_unauthorize_mac(mac, ok, partial)
    \/ \E mac \in UrlMacs, ok, partial \in BOOLEAN :
           S1_toggle_authorization(mac, ok, partial)
    \/ reload_authorized

SpecAuth == InitAuth /\ [][NextAuth]_vars

(* ====================================================================== *)
(* Part V: monitor_esp32.py, the serial monitor                            *)
(* ====================================================================== *)

\* Lines the monitor processes in a run.
MaxLines == 3

\* Everything the monitor leaves alone: it is a process of its own and
\* reaches the server only through the requests it posts.
monitorFrame ==
    << authz, registry, threat_log, firewall, blocked_devices, alerts, pc,
       call, resp, sweepLoc, faults, trip, blocked_macs, packet_rates,
       WIDS_BLOCK, timers, now, ticks, AUTO_BLOCK_THRESHOLD, BLOCK_DURATION,
       listing_upper, rx >>

\* Lines read from the serial port, by what process_line looks for in them:
\* whether "ESP32_WIDS_READY" occurs, and the rest of the text.
SerialLines ==
    [marker : BOOLEAN,
     text : {"WiFi Connected", "MAC:AA RSSI:-65", "MAC:?? RSSI:-65", "boot"}]

\* parse_packet_line: the packet, or None (here a packet with no MAC) if no
\* MAC matches.
parse_packet_line(line) ==
    IF line.text = "MAC:AA RSSI:-65" THEN [mac |-> "AA", type |-> "detected"]
    ELSE [mac |-> None, type |-> "detected"]

\* The ready branch taken for every line that has the marker.
ready_marker(line, ready) == line.marker

\* "ESP32_WIDS_READY" in line and not self.ready
ready_signal(line, ready) == line.marker /\ ~ready

\* send_ready_notification(): one request; its outcome is only printed.
send_ready_notification(posted) ==
    Append(posted, [mac |-> "READY_SIGNAL", type |-> "system"])

\* process_line(line); ok: the request the line leads to, if any, is
\* answered with status 200.
process_line(line, ok) ==
    LET packet == parse_packet_line(line)
        is_packet == line.text \in {"MAC:AA RSSI:-65", "MAC:?? RSSI:-65"}
        m1 == [monitor EXCEPT !.console = Append(@, line)]
    IN  /\ Len(monitor.console) < MaxLines
        /\ monitor' =
             IF ready_signal(line, monitor.ready)
             THEN [m1 EXCEPT !.ready = TRUE,
                             !.posted = send_ready_notification(@)]
             ELSE IF line.text = "WiFi Connected" THEN m1
             ELSE IF is_packet /\ packet.mac # None
             THEN [m1 EXCEPT !.devices_detected = @ \cup {packet.mac},
                             !.posted = Append(@, packet),
                             !.packet_count = IF ok THEN @ + 1 ELSE @]
             ELSE m1
        /\ UNCHANGED monitorFrame

NextMonitor == \E line \in SerialLines, ok \in BOOLEAN : process_line(line, ok)

SpecMonitor == Init /\ [][NextMonitor]_vars

(* ---------------------------------------------------------------------- *)
(* Properties of Server.py                                                 *)
(* ---------------------------------------------------------------------- *)

\* C2: for an identifier in the authorization set the classifier returns no
\* finding, whatever the record: a packet whose MAC is authorized when it is
\* analysed is answered with threats_detected = 0.
C2_AuthorizedHasNoFindings ==
    [][(packets' # packets
          /\ packets'[Len(packets')].mac \in authorized_macs) =>
              resp'.threats_detected = 0]_vars

\* C10: when the expiry timer of a block fires, the identifier is Unblocked:
\* it has no firewall rule and is not in the logical blocked set.
C10_ExpiryUnblocks ==
    [][\A timer \in BagToSet(timers) :
          (BagCardinality(timers') < BagCardinality(timers)
              /\ ~BagIn(timer, timers')) =>
              /\ WIDS_BLOCK'[mac_bytes(timer.mac)] = 0
              /\ timer.mac \notin blocked_macs']_vars

(* ---------------------------------------------------------------------- *)
(* Properties of server.py                                                 *)
(* ---------------------------------------------------------------------- *)

\* A thread executes the step at location loc of its current call.
Steps(t, loc) == pc[t] = loc /\ pc'[t] # loc

\* C1: automated mitigation never blocks an identifier that is authorized
\* at the moment the block is applied: whenever the auto-blocking thread
\* inserts a firewall rule or writes the Blocked row, the MAC of the call is
\* not in authorized_macs.
C1_AutoBlockSparesAuthorized ==
    [][\A loc \in {"bw_input", "bw_forward", "bw_log"} :
          Steps("sweep", loc) => call["sweep"].mac \notin authorized_macs]_vars

\* C3: the table holds at most one Blocked row per identifier.
C3_OneBlockedRecord ==
    \A m \in Macs : BlockedRows(blocked_devices, m) <= 1

\* C3 witness: two calls of block_with_iptables have both inserted rules and
\* logged the same MAC, and one Blocked row is in the table.
C3_LoggedTwice ==
    \E m \in Macs :
        /\ INPUT[m] = 2 /\ FORWARD[m] = 2 /\ Quiet(m)
        /\ BlockedRows(blocked_devices, m) = 1

\* C4: when block is called for an identifier that an earlier call has
\* blocked and nobody has unblocked since, the second call inserts nothing:
\* it returns from its check, and the identifier keeps exactly one rule in
\* each chain and exactly one Blocked row.
C4_BlockIdempotent ==
    [][\A t \in Threads :
          (Steps(t, "bw_check") /\ Blocked(call[t].mac)) =>
              /\ pc'[t] # "bw_input"
              /\ INPUT'[call[t].mac] = 1 /\ FORWARD'[call[t].mac] = 1
              /\ BlockedRows(blocked_devices', call[t].mac) = 1]_vars

\* C4 witness: the second block request for a Blocked MAC has returned
\* "already blocked".
C4_BlockedTwice ==
    \E m \in Macs :
        /\ resp = block_response(FALSE, m)
        /\ pc["req"] = "idle"
        /\ Blocked(m)

\* C5: concurrent block attempts for one identifier leave at most one rule
\* for it in each chain.
C5_AtMostOneRule ==
    \A m \in Macs : INPUT[m] <= 1 /\ FORWARD[m] <= 1

\* C6: authorizing an identifier that is Blocked unblocks it in the same
\* request: when the authorize route adds a Blocked MAC to authorized_macs,
\* the MAC is Unblocked when the handler returns.
C6_AuthorizeUnblocks ==
    [][\A m \in Macs :
          (Blocked(m) /\ Quiet(m) /\ m \notin authorized_macs
              /\ m \in authorized_macs') => Unblocked(m)']_vars

\* C7: an identifier that was Blocked, then authorized, unblocked and revoked
\* stays Unblocked through the later sweeps as long as no new telemetry for
\* it arrives and nobody blocks it by hand.
C7_RevokedStaysUnblocked ==
    \A m \in Macs : trip[m] = "revoked" => Unblocked(m)

\* C8: when a rule insertion of a block call failed, the call writes no
\* Blocked row, reports no success and sends no notification.
C8_FailedInsertNotRecorded ==
    [][\A t \in Threads :
          (Steps(t, "bw_log") /\ ~(call[t].result1 /\ call[t].result2)) =>
              /\ BlockedRows(blocked_devices', call[t].mac) = 0
              /\ resp'.status # "blocked"
              /\ pc'[t] # "alert"]_vars

\* C9: when a rule removal of an unblock call failed for a Blocked
\* identifier, its row stays Blocked and no success is reported.
C9_FailedRemovalStaysBlocked ==
    [][\A t \in Threads :
          (/\ Steps(t, "ub_db")
           /\ BlockedRows(blocked_devices, call[t].mac) > 0
           /\ ~(call[t].result1 /\ call[t].result2)) =>
              /\ BlockedRows(blocked_devices', call[t].mac) > 0
              /\ resp'.status # "unblocked"]_vars

(* ---------------------------------------------------------------------- *)
(* Properties of the sweep of server.py                                    *)
(* ---------------------------------------------------------------------- *)

Evaluates == pc["sweep"] = "scan" /\ (idx' # idx \/ pc'["sweep"] # "scan")

\* The record yields a finding the sweep blocks for.
blocking_finding(packet) ==
    /\ ~raises(packet)
    /\ check_intrusion(packet, authorized_macs).found
    /\ packet.attack_type \in AutoBlockTypes

\* C12: when the window of a cycle holds, for a non-authorized identifier
\* that is not Blocked, a record with a finding the sweep blocks for, the
\* cycle attempts to block the identifier, whatever lower-severity records
\* of the identifier precede it.  Stated for the first such record of the
\* identifier in the window: the step that evaluates it calls
\* block_with_iptables.
C12_HighestSeverityApplied ==
    [][ ( /\ Evaluates
          /\ blocking_finding(window[idx])
          /\ \A j \in 1..(idx - 1) :
                 ~(blocking_finding(window[j])
                   /\ upper(window[j].mac) = upper(window[idx].mac))
          /\ ~Blocked(upper(window[idx].mac)) )
        => pc'["sweep"] = "bw_check" ]_vars

\* C13: a block requested for an identifier already blocked in the firewall
\* is a no-op that returns success: POST /api/block/<mac> answers "blocked",
\* not an error, and the chains and the table are left as they were.
C13_AlreadyBlockedSucceeds ==
    [][ Steps("req", "bw_check") /\ is_listed(INPUT, call["req"].mac) =>
            /\ resp' = block_response(TRUE, call["req"].mac)
            /\ firewall' = firewall
            /\ blocked_devices' = blocked_devices ]_vars

C15_FailureSkipsOnlyItsRecord ==
    [][ pc["sweep"] # "sleep" /\ pc'["sweep"] = "sleep" =>
            \A j \in (idx' + 1)..Len(window) : window[j].mac \notin Macs ]_vars

(* ---------------------------------------------------------------------- *)
(* Properties of the device registry                                       *)
(* ---------------------------------------------------------------------- *)

\* C16: after any sequence of ingestion calls, overlapping ones included,
\* the packet count of each device record equals the number of records
\* processed for the identifier; a MAC without record has no device.
C16_CountsEveryRecord ==
    (\A r \in RxThreads : rx[r].pc = "idle") =>
        \A m \in Macs :
            IF devices[m].seen
            THEN devices[m].packet_count = records_of(packets, m)
            ELSE records_of(packets, m) = 0

\* C17: the last-seen time of a device record never decreases across
\* upserts: a record processed at a time earlier than the stored last-seen
\* leaves last-seen as it is, and the packet count still goes up by one.
C17_LastSeenNeverDecreases ==
    [][ \A m \in Macs :
            devices[m].seen /\ devices'[m] # devices[m] =>
                /\ devices'[m].last_seen >= devices[m].last_seen
                /\ devices'[m].packet_count = devices[m].packet_count + 1
      ]_vars

\* C18: the active-devices view lists exactly the records seen less than
\* the TTL (one hour) ago, and an expired record is never removed: a later
\* record of the identifier updates the entry that is there, first-seen and
\* packet count kept, and stamps it with the time of the request, which
\* makes it active again.
C18_ExpiredKeptAndRevived ==
    [][ /\ get_devices(devices, now) =
             {m \in Macs : devices[m].seen
                             /\ devices[m].last_seen > now - DeviceTTL}
        /\ get_devices(devices', now') =
             {m \in Macs : devices'[m].seen
                             /\ devices'[m].last_seen > now' - DeviceTTL}
        /\ \A m \in Macs :
              devices[m].seen =>
                  /\ devices'[m].seen
                  /\ devices'[m].first_seen = devices[m].first_seen
                  /\ devices'[m] # devices[m] =>
                        /\ devices'[m].packet_count =
                               devices[m].packet_count + 1
                        /\ devices'[m].last_seen = rx["r1"].at
                        /\ now' - rx["r1"].at < DeviceTTL =>
                               m \in get_devices(devices', now')
      ]_vars

\* C18 witness: AA was first seen at 0, expired when the clock reached the
\* TTL, and a second record at that time made it active again with its
\* first-seen kept and a count of 2.
C18_ExpiredThenRevived ==
    /\ now = DeviceTTL
    /\ devices["AA"].seen
    /\ devices["AA"].first_seen = 0
    /\ devices["AA"].last_seen = DeviceTTL
    /\ devices["AA"].packet_count = 2
    /\ "AA" \in get_devices(devices, now)
    /\ "AA" \notin get_devices(devices, now + DeviceTTL)

(* ---------------------------------------------------------------------- *)
(* Properties of the threat log                                            *)
(* ---------------------------------------------------------------------- *)

\* C19: after every logging operation the threat log holds at most 100
\* entries, and a new entry of a full log evicts the oldest: the log is the
\* former log, without its first entry if it was full, followed by the
\* entry of the record evaluated.
C19_LogKeepsLatestHundred ==
    [][ /\ Len(threat_log) <= ThreatLogCap
        /\ Len(threat_log') <= ThreatLogCap
        /\ Evaluates /\ ~raises(window[idx])
              /\ check_intrusion(window[idx], authorized_macs).found =>
              threat_log' =
                  (IF Len(threat_log) = ThreatLogCap THEN Tail(threat_log)
                   ELSE threat_log) \o << log_entry(window[idx]) >>
      ]_vars

\* C19 witness: three entries were logged to the log of 99: it is full, its
\* two oldest entries are gone and the third oldest is now the first.
C19_TwoEvicted ==
    /\ Len(threat_log) = ThreatLogCap
    /\ cycles = 1 /\ pc["sweep"] = "sleep" /\ idx = 4
    /\ packets = HistoryInputs
    /\ SubSeq(threat_log, 1, ThreatLogCap - 3) = SubSeq(History, 3, ThreatLogCap - 1)
    /\ SubSeq(threat_log, ThreatLogCap - 2, ThreatLogCap) =
           [i \in 1..3 |-> log_entry(HistoryInputs[i])]

(* ---------------------------------------------------------------------- *)
(* Properties of the packet rates of Server.py                             *)
(* ---------------------------------------------------------------------- *)

\* get_devices: the timestamps of a MAC within the last 10 seconds; the rate
\* reported is their number divided by 10.0.
recent_packets(rates, mac, t) ==
    Filter(rates[mac], LAMBDA x : t - x < RateWindow)

\* C20: each processed record contributes exactly one timestamp to the rate
\* window of its identifier, and the rate reported is the number of records
\* of the identifier within the last 10 seconds divided by 10: neither the
\* timestamps kept for an identifier nor ten times its reported rate exceed
\* the number of records processed for it.
C20_OneStampPerRecord ==
    \A m \in UrlMacs :
        LET processed == Cardinality({i \in 1..Len(packets) :
                                         packets[i].mac = m})
        IN  /\ Len(packet_rates[m]) <= processed
            /\ Len(recent_packets(packet_rates, m, now)) <= processed

(* ---------------------------------------------------------------------- *)
(* Properties of the sweep of server.py, continued                         *)
(* ---------------------------------------------------------------------- *)

\* C30: in one cycle the block operation is attempted at most once per
\* identifier, however many hostile records of it the window holds: the
\* sweep calls block_with_iptables only for a MAC the cycle has not dealt
\* with, the call marks the MAC, and the marks stay until the next cycle
\* starts.
C30_OneAttemptPerCycle ==
    [][ /\ Evaluates /\ pc'["sweep"] = "bw_check" =>
              /\ call'["sweep"].mac \notin processed_macs
              /\ call'["sweep"].mac \in processed_macs'
        /\ cycles' = cycles => processed_macs \subseteq processed_macs'
      ]_vars

\* C30 witness: a completed cycle over two deauth records of AA: both were
\* logged, AA has one rule in each chain and was reported once.
C30_TwoHostileOneBlock ==
    /\ window = << [mac |-> "AA", ssid |-> "other",
                    attack_type |-> "deauth_attack"],
                   [mac |-> "AA", ssid |-> "other",
                    attack_type |-> "deauth_attack"] >>
    /\ cycles = 1 /\ pc["sweep"] = "sleep" /\ idx = 3
    /\ Len(threat_log) = 2
    /\ INPUT["AA"] = 1 /\ FORWARD["AA"] = 1 /\ alerts["AA"] = 1

\* C29: when shutdown is requested the sweep starts no new cycle, lets the
\* cycle in flight run to completion and then terminates: the sweep thread
\* ends only between two cycles, and once it has ended no cycle starts.
C29_ShutdownBetweenCycles ==
    [][ /\ pc["sweep"] # "exit" /\ pc'["sweep"] = "exit" =>
              pc["sweep"] = "sleep"
        /\ pc["sweep"] = "exit" => cycles' = cycles /\ pc'["sweep"] = "exit"
      ]_vars

(* ---------------------------------------------------------------------- *)
(* Properties of Server1.py                                                *)
(* ---------------------------------------------------------------------- *)

\* C28: every change of the authorization set is followed by a save: after a
\* step in which no write failed and the set or the file changed, loading the
\* file gives exactly the set in memory, unless the file is one that an
\* earlier failed write left cut short.
C28_SavedAfterMutation ==
    [][ /\ faults' = faults
        /\ authorized_macs' # authorized_macs \/ saved_macs' # saved_macs
        => IF saved_macs' = Corrupt
           THEN saved_macs' = saved_macs
           ELSE load_authorized_macs(saved_macs') = authorized_macs'
      ]_vars

\* C28 witness: two identifiers were added, every save succeeded, and the
\* file lists both.
C28_TwoSaved ==
    /\ faults = 0
    /\ authorized_macs = {"AA", "BB"}
    /\ saved_macs \in listings({"AA", "BB"})

\* C27: the authorized flag of every device record equals the membership of
\* its identifier in the authorization set.
C27_FlagIsMembership ==
    \A m \in UrlMacs :
        devices[m].seen => (devices[m].authorized <=> m \in authorized_macs)

(* ---------------------------------------------------------------------- *)
(* Properties of Server.py, continued                                      *)
(* ---------------------------------------------------------------------- *)

\* C26: an identifier is put in upper case before it is looked up: the
\* registry is keyed by upper-case identifiers, so records that differ in
\* case share a device record, and a device whose identifier is authorized in
\* any case is flagged authorized.
C26_UpperCaseLookups ==
    \A m \in UrlMacs :
        devices[m].seen =>
            /\ m = upper(m)
            /\ devices[m].authorized <=> upper(m) \in authorized_macs

\* C25: handling a telemetry record leaves the firewall alone: a step that
\* stores a record changes neither the rules of the chain nor the pending
\* unblock timers.
C25_IngestionLeavesFirewall ==
    [][ packets' # packets => WIDS_BLOCK' = WIDS_BLOCK /\ timers' = timers
      ]_vars

\* C24: an unblock touches the rules of its own identifier only: in a step
\* in which no request unblocks an identifier (it stays in blocked_macs) and
\* no timer of that identifier fires, the identifier keeps its rules.
C24_UnblockIsLocal ==
    [][ \A m \in Macs :
            /\ m \in blocked_macs /\ m \in blocked_macs'
            /\ \A timer \in BagToSet(timers) :
                   mac_bytes(timer.mac) = m => BagIn(timer, timers')
            => WIDS_BLOCK'[m] >= WIDS_BLOCK[m]
      ]_vars

\* C23: for a record of a non-authorized identifier the detector returns the
\* findings whose rule holds and no others: every finding logged for the
\* record is a signature or a flood finding, and a high-severity
\* deauthentication finding is among them exactly if the record is labelled
\* deauthentication.
C23_ExactlyTheRuleFindings ==
    [][ packets' # packets =>
            LET packet == packets'[Len(packets')]
                found == SubSeq(threat_log', Len(threat_log) + 1,
                                Len(threat_log'))
            IN  packet.mac \notin authorized_macs =>
                    /\ \A i \in 1..Len(found) :
                           found[i].type \in {"deauthentication_attack",
                                              "packet_flood"}
                    /\ packet.packet_type = "deauth" <=>
                           \E i \in 1..Len(found) :
                               /\ found[i].type = "deauthentication_attack"
                               /\ found[i].severity = "high"
      ]_vars

\* The findings the step logs for the record it stores.
found_flood ==
    \E i \in Len(threat_log) + 1 .. Len(threat_log') :
        /\ threat_log'[i].type = "packet_flood"
        /\ threat_log'[i].severity = "critical"

\* C21: a record of a non-authorized identifier yields a flood finding only
\* if the identifier's rate is strictly above the threshold: more than
\* window * threshold of its records have arrived (the records in the window
\* are at most the records stored).
C21_FloodOnlyAboveThreshold ==
    [][ packets' # packets =>
            LET packet == packets'[Len(packets')] IN
            packet.mac \notin authorized_macs /\ found_flood =>
                records_of(packets', upper(packet.mac))
                    > RateWindow * AUTO_BLOCK_THRESHOLD
      ]_vars

\* C22, as stated: with the default threshold the 15th record of a burst
\* within the window yields a flood finding and the identifier is blocked.
C22_FifteenthRecordFloods ==
    [][ /\ packets' # packets /\ Len(packets') = 15
        /\ now = 0 /\ AUTO_BLOCK_THRESHOLD = DefaultThreshold
        => /\ found_flood
           /\ WIDS_BLOCK'["BB"] > 0
           /\ "BB" \in blocked_macs'
      ]_vars

\* C22, amended: with the default threshold no record of a burst of 15
\* yields a flood finding, and none changes the rules or the blocked set.
C22_BurstBelowThreshold ==
    [][ packets' # packets /\ AUTO_BLOCK_THRESHOLD = DefaultThreshold
        => /\ ~found_flood
           /\ WIDS_BLOCK' = WIDS_BLOCK
           /\ blocked_macs' = blocked_macs
      ]_vars

\* C22 witness: 15 records of one identifier at one time, 30 timestamps in
\* its window, the default threshold, and the identifier is not blocked.
C22_FifteenUnblocked ==
    /\ Len(packets) = 15
    /\ now = 0
    /\ AUTO_BLOCK_THRESHOLD = DefaultThreshold
    /\ Len(packet_rates["BB"]) = 30
    /\ WIDS_BLOCK["BB"] = 0
    /\ "BB" \notin blocked_macs
    /\ \A i \in 1..Len(threat_log) : threat_log[i].type # "packet_flood"

(* ---------------------------------------------------------------------- *)
(* Properties of monitor_esp32.py                                          *)
(* ---------------------------------------------------------------------- *)

\* The ready notifications among the requests posted.
ready_posts(posted) ==
    Cardinality({i \in 1..Len(posted) : posted[i].mac = "READY_SIGNAL"})

\* C38: the ready flag becomes true on the first line that has the ready
\* marker and stays true, and the ready notification is posted at most once:
\* exactly when the flag becomes true.
C38_ReadyOnceNotifiedOnce ==
    [][ LET line == monitor'.console[Len(monitor'.console)] IN
        /\ monitor'.ready <=> monitor.ready \/ line.marker
        /\ ready_posts(monitor'.posted) <= 1
        /\ ready_posts(monitor'.posted) # ready_posts(monitor.posted)
               <=> ~monitor.ready /\ monitor'.ready
      ]_vars

\* C38 witness: two lines with the marker have been processed and one ready
\* notification has been posted.
C38_TwoReadyLinesOnePost ==
    /\ monitor.ready
    /\ Cardinality({i \in 1..Len(monitor.console) :
                        monitor.console[i].marker}) >= 2
    /\ ready_posts(monitor.posted) = 1

(* ---------------------------------------------------------------------- *)
(* Properties of server.py: records without an identifier                  *)
(* ---------------------------------------------------------------------- *)

\* The MAC of the record is empty or the all-zero address.
blank(packet) == packet.mac \in {"", ZeroMac}

\* C37: a record whose identifier is empty or all zero is appended to the
\* packets and changes no device record; a cycle that evaluates it logs no
\* finding, starts no block call, and leaves the rules, the table and the
\* alerts as they are.
C37_BlankRecordIsInert ==
    [][ /\ packets' # packets /\ blank(packets'[Len(packets')]) =>
               /\ packets' = Append(packets, packets'[Len(packets')])
               /\ devices' = devices
        /\ Evaluates /\ idx <= Len(window) /\ blank(window[idx]) =>
               /\ threat_log' = threat_log
               /\ pc'["sweep"] # "bw_check"
               /\ call' = call
               /\ INPUT' = INPUT /\ FORWARD' = FORWARD
               /\ blocked_devices' = blocked_devices
               /\ alerts' = alerts
      ]_vars

\* C37 witness: two hostile records without identifier are stored, a cycle
\* has evaluated both and sleeps, and nothing is logged, known or blocked.
C37_BlankSwept ==
    /\ Len(packets) = 2
    /\ \A i \in 1..2 : blank(packets[i])
    /\ window = packets /\ idx > Len(window)
    /\ pc["sweep"] = "sleep" /\ cycles >= 1
    /\ threat_log = << >>
    /\ \A m \in Macs : ~devices[m].seen /\ Unblocked(m)

(* ---------------------------------------------------------------------- *)
(* Properties of the authorization routes of Server.py                     *)
(* ---------------------------------------------------------------------- *)

\* C36: an authorize request for an identifier that is not a MAC address is
\* rejected and changes nothing: every authorized identifier is a MAC
\* address.
C36_OnlyMacsAuthorized == \A mac \in authorized_macs : valid_mac(mac)

(* ---------------------------------------------------------------------- *)
(* Properties of the sweep of server.py: records swept again               *)
(* ---------------------------------------------------------------------- *)

\* C35: a hostile record contributes at most one entry to the threat log:
\* the log has no more entries than there are stored records with a finding.
C35_OneEntryPerRecord ==
    Len(threat_log) <=
        Cardinality({i \in 1..Len(packets) :
                        /\ ~raises(packets[i])
                        /\ check_intrusion(packets[i], authorized_macs).found})

\* C34: every record is examined by a cycle: a cycle that starts after one
\* that found no packets takes every record received so far into its window.
C34_NextCycleSeesAll ==
    [][ cycles' = cycles + 1 /\ Len(window) = 0 =>
            Len(window') = Len(packets) ]_vars

\* C32: an identifier that was unblocked by hand stays unblocked until a new
\* record arrives: while the only record stored is the one it was blocked
\* for and the table says unblocked, the firewall has no rule for it.
C32_UnblockedUntilNewRecord ==
    \A m \in Macs :
        /\ Len(packets) = 1
        /\ CopiesIn([mac |-> m, status |-> "unblocked"], blocked_devices) > 0
        => INPUT[m] = 0 /\ FORWARD[m] = 0

(* ---------------------------------------------------------------------- *)
(* Properties of the block state of Server.py                              *)
(* ---------------------------------------------------------------------- *)

\* C33: the logical block state agrees with the firewall: as long as no
\* command has failed, an identifier in blocked_macs, and a device flagged
\* blocked, has a rule in the chain.
C33_BlockedSetHasRules ==
    faults = 0 =>
        /\ \A m \in blocked_macs : WIDS_BLOCK[mac_bytes(m)] > 0
        /\ \A m \in UrlMacs :
               devices[m].seen /\ devices[m].blocked =>
                   WIDS_BLOCK[mac_bytes(m)] > 0

\* C31: a block of duration D keeps its rule until its own deadline: when a
\* timer of an identifier expires while a later timer of the same identifier
\* is still waiting for a deadline that has not come, the rule of the
\* identifier is still in the chain after the step.
C31_StaleTimerSparesLaterBlock ==
    [][ \A timer \in BagToSet(timers) :
            /\ CopiesIn(timer, timers') < CopiesIn(timer, timers)
            /\ WIDS_BLOCK[mac_bytes(timer.mac)] > 0
            /\ \E later \in BagToSet(timers') :
                   later.mac = timer.mac /\ later.at > now
            => WIDS_BLOCK'[mac_bytes(timer.mac)] > 0 ]_vars

====
